---- MODULE Spec2Model ----
(***************************************************************************)
(* Model of the dag-history-component view-model projection:               *)
(*   src/src/components/History/index.jsx   (History component)            *)
(*   src/src/components/Transport/index.tsx (Transport component)          *)
(*   src/unnamed/part_000                   (UI-state reducer)             *)
(*                                                                         *)
(* The history graph is the external redux-dag-history collaborator; the   *)
(* component only queries it.  A graph is a record                         *)
(*   [n, parent, branch, branches, currentBranch, currentStateId]          *)
(* with states 0..n-1.  Opaque display values (label, source, onRename)    *)
(* are left out of the view-model entries.                                 *)
(***************************************************************************)
EXTENDS Integers, Sequences, FiniteSets, TLC

\* ---- bounds ----
MaxStates == 3
MaxBranches == 2
MaxBookmarks == 2

\* JavaScript null and undefined (state and branch ids are >= 0)
Null == 0 - 1
Undefined == 0 - 2

StateIds == 0 .. (MaxStates - 1)
BranchIds == 0 .. (MaxBranches - 1)

\* ---- JavaScript value helpers ----
isNumber(d) == d # Undefined /\ d # Null

\* JavaScript truthiness of a number | null | undefined
Truthy(d) == d # Null /\ d # Undefined /\ d # 0

\* JavaScript ToNumber of a number | null (null - null is 0)
ToNum(d) == IF d = Null THEN 0 ELSE d

Max2(a, b) == IF a >= b THEN a ELSE b

\* ---- sequence helpers (Array.prototype) ----
RECURSIVE Reverse(_)
Reverse(s) == IF s = <<>> THEN <<>> ELSE Append(Reverse(Tail(s)), Head(s))

Range(s) == {s[i] : i \in 1 .. Len(s)}

\* insert x into an ascending sequence (comparator (a, b) => a - b)
RECURSIVE InsertAsc(_, _)
InsertAsc(x, s) ==
  IF s = <<>> THEN <<x>>
  ELSE IF x - Head(s) < 0 THEN <<x>> \o s
       ELSE <<Head(s)>> \o InsertAsc(x, Tail(s))

RECURSIVE SortAsc(_)
SortAsc(s) == IF s = <<>> THEN <<>> ELSE InsertAsc(Head(s), SortAsc(Tail(s)))

\* ---- the history graph collaborator (read-only queries) ----
GraphStates(g) == 0 .. (g.n - 1)

parentOf(g, id) == IF id \in GraphStates(g) THEN g.parent[id] ELSE Undefined

branchOf(g, id) == IF id \in GraphStates(g) THEN g.branch[id] ELSE Undefined

\* direct children, in ascending id order
childrenOf(g, id) ==
  SelectSeq([i \in 1 .. g.n |-> i - 1], LAMBDA s : g.parent[s] = id)

RECURSIVE commitPath(_, _)
commitPath(g, id) ==
  IF id \notin GraphStates(g) THEN <<>>
  ELSE Append(commitPath(g, g.parent[id]), id)

stateDepth(g, id) ==
  IF id \in GraphStates(g) THEN Len(commitPath(g, id)) - 1 ELSE Null

committedOn(g, b) == {s \in GraphStates(g) : g.branch[s] = b}

latestOn(g, b) ==
  LET on == committedOn(g, b)
      last == {s \in on : \A c \in on : g.parent[c] # s}
  IN IF last = {} THEN Undefined ELSE CHOOSE s \in last : TRUE

firstOn(g, b) ==
  LET on == committedOn(g, b)
      first == {s \in on : g.parent[s] \notin on}
  IN IF first = {} THEN Undefined ELSE CHOOSE s \in first : TRUE

branchStartDepth(g, b) == stateDepth(g, firstOn(g, b))

branchEndDepth(g, b) == stateDepth(g, latestOn(g, b))

\* branch-local zero-based depth of a commit; undefined if not on the branch
depthIndexOf(g, b, id) ==
  IF id \in GraphStates(g) /\ g.branch[id] = b
  THEN stateDepth(g, id) - branchStartDepth(g, b)
  ELSE Undefined


\* ---- well-formed history graphs within the bounds ----
\* State ids and branch ids are opaque numbers to the component: a graph may
\* label its states in any order.  A graph has one root, every state reaches
\* it, every branch is one contiguous run of commits, and the branches are
\* listed in creation order.  The current branch is a listed branch (it may
\* have no commits) and the current state is a state on its commit path.
RECURSIVE ReachesRoot(_, _, _)
ReachesRoot(parent, id, fuel) ==
  IF id = Null THEN TRUE
  ELSE IF fuel = 0 THEN FALSE
       ELSE ReachesRoot(parent, parent[id], fuel - 1)

Trees(n) ==
  {p \in [0 .. (n - 1) -> (0 .. (n - 1)) \cup {Null}] :
     /\ Cardinality({s \in 0 .. (n - 1) : p[s] = Null}) = 1
     /\ \A s \in 0 .. (n - 1) : ReachesRoot(p, s, n)}

\* every branch is a chain: one first commit, and no commit has two children
\* on its own branch
Contiguous(n, p, br) ==
  LET first(s) == p[s] = Null \/ br[p[s]] # br[s]
  IN \A s, t \in 0 .. (n - 1) :
       (s # t /\ br[s] = br[t]) =>
         /\ ~(first(s) /\ first(t))
         /\ ~(~first(s) /\ ~first(t) /\ p[s] = p[t])

BranchMaps(n, m, p) ==
  {br \in [0 .. (n - 1) -> 0 .. (m - 1)] : Contiguous(n, p, br)}

\* the current state lies on the current branch's commit path, unless the
\* current branch has no commits
CurrentResolves(g) ==
  LET path == commitPath(g, latestOn(g, g.currentBranch))
  IN path = <<>> \/ g.currentStateId \in Range(path)

GraphsOf(n, m) ==
  {g \in {[n |-> n, parent |-> t[2], branch |-> t[1],
           branches |-> [k \in 1 .. m |-> k - 1],
           currentBranch |-> t[3], currentStateId |-> t[4]] :
            t \in UNION {BranchMaps(n, m, p) \X {p} \X (0 .. (m - 1)) \X (0 .. (n - 1)) :
                           p \in Trees(n)}} :
     CurrentResolves(g)}

GraphSizes == (1 .. MaxStates) \X (1 .. MaxBranches)

\* ---- History component: projections ----
getCurrentCommitPath(g) == commitPath(g, latestOn(g, g.currentBranch))

\* bookmarks.map(b => b.stateId).includes(id)
isBookmarked(bks, id) == \E i \in 1 .. Len(bks) : bks[i].stateId = id

\* mutant: the isNumber guard is dropped
isSuccessorOf_NoGuard(g, pinnedState, id) == parentOf(g, id) = pinnedState

isSuccessorOf(g, pinnedState, id) ==
  isNumber(pinnedState) /\ parentOf(g, id) = pinnedState

\* the entry built for commitPath[index] (zero-based index)
stateEntry(g, bks, pinnedState, activeBranchStartsAt, id, index) ==
  [id |-> id,
   active |-> (g.currentStateId = id),
   pinned |-> (pinnedState = id),
   isSuccessor |-> isSuccessorOf(g, pinnedState, id),
   continuationActive |-> (id = pinnedState),
   branchType |-> IF index < activeBranchStartsAt THEN "legacy" ELSE "current",
   bookmarked |-> isBookmarked(bks, id),
   continuation |-> [count |-> Len(childrenOf(g, id))]]

\* mutant: the trailing .reverse() is dropped
getStateList_NoReverse(g, path, bks, pinnedState) ==
  LET activeBranchStartsAt == branchStartDepth(g, g.currentBranch)
  IN [k \in 1 .. Len(path) |->
        stateEntry(g, bks, pinnedState, activeBranchStartsAt, path[k], k - 1)]

getStateList(g, path, bks, pinnedState) ==
  LET activeBranchStartsAt == branchStartDepth(g, g.currentBranch)
  IN Reverse([k \in 1 .. Len(path) |->
                stateEntry(g, bks, pinnedState, activeBranchStartsAt, path[k], k - 1)])

\* branchPaths: for every branch met on the commit path, the first and the
\* last zero-based index at which it is met
branchPaths(g, path) ==
  [b \in {branchOf(g, path[k]) : k \in 1 .. Len(path)} |->
     LET at == {k \in 1 .. Len(path) : branchOf(g, path[k]) = b}
     IN [start |-> (CHOOSE k \in at : \A j \in at : k <= j) - 1,
         end |-> (CHOOSE k \in at : \A j \in at : k >= j) - 1]]

\* selectedSuccessorsByBranch[branch]: the last child of the pinned state
\* that is on the branch, or undefined
selectedSuccessor(g, pinnedState, b) ==
  LET kids == IF isNumber(pinnedState) THEN childrenOf(g, pinnedState) ELSE <<>>
      on == {k \in 1 .. Len(kids) : branchOf(g, kids[k]) = b}
  IN IF on = {} THEN Undefined
     ELSE kids[CHOOSE k \in on : \A j \in on : k >= j]

getSuccessorDepth(g, pinnedState, b) ==
  LET successorId == selectedSuccessor(g, pinnedState, b)
  IN IF Truthy(successorId) THEN depthIndexOf(g, b, successorId) ELSE Null

getPinnedStateDepth(g, pinnedState, b) ==
  IF ~isNumber(pinnedState) \/ branchOf(g, pinnedState) # b
  THEN Null
  ELSE depthIndexOf(g, b, pinnedState)

branchLength(g, b) == ToNum(branchEndDepth(g, b)) - ToNum(branchStartDepth(g, b))

RECURSIVE maxDepthOver(_, _)
maxDepthOver(g, bs) ==
  IF bs = <<>> THEN 0
  ELSE Max2(maxDepthOver(g, Tail(bs)), branchLength(g, Head(bs)))

\* mutant: the active index is shown on every lane
showActiveStateIndex_Always(g, b) == TRUE

showActiveStateIndex(g, b) ==
  g.currentBranch = b \/ branchOf(g, g.currentStateId) = b

branchEntry(g, pinnedState, paths, activeStateIndex, maxDepth, b) ==
  [id |-> b,
   active |-> (g.currentBranch = b),
   activeStateIndex |-> IF showActiveStateIndex(g, b) THEN activeStateIndex ELSE Null,
   startsAt |-> branchStartDepth(g, b),
   endsAt |-> branchEndDepth(g, b),
   maxDepth |-> maxDepth,
   branchType |-> IF g.currentBranch = b THEN "current" ELSE "legacy",
   currentBranchStart |-> IF b \in DOMAIN paths THEN paths[b].start ELSE Null,
   currentBranchEnd |-> IF b \in DOMAIN paths THEN paths[b].end ELSE Null,
   successorDepth |-> IF ~isNumber(pinnedState) THEN Null
                      ELSE getSuccessorDepth(g, pinnedState, b),
   pinnedStateIndex |-> getPinnedStateDepth(g, pinnedState, b)]

\* mutant: the .reverse() after the sort is dropped
sortedBranches_Ascending(bs) == SortAsc(bs)

\* branches.sort((a, b) => a - b).reverse()
sortedBranches(bs) == Reverse(SortAsc(bs))

\* mutant: the current branch is not exempt from the filter
keepBranch_NoActive(pinnedState, entry) ==
  \/ ~Truthy(pinnedState)
  \/ isNumber(entry.pinnedStateIndex)
  \/ isNumber(entry.successorDepth)

\* the predicate of the trailing .filter
keepBranch(pinnedState, entry) ==
  \/ ~Truthy(pinnedState)
  \/ entry.active
  \/ isNumber(entry.pinnedStateIndex)
  \/ isNumber(entry.successorDepth)

getBranchList(g, path, pinnedState) ==
  LET paths == branchPaths(g, path)
      activeStateBranch == branchOf(g, g.currentStateId)
      activeStateIndex == depthIndexOf(g, activeStateBranch, g.currentStateId)
      maxDepth == maxDepthOver(g, g.branches)
      sorted == sortedBranches(g.branches)
      entries == [k \in 1 .. Len(sorted) |->
                    branchEntry(g, pinnedState, paths, activeStateIndex,
                                maxDepth, sorted[k])]
  IN SelectSeq(entries, LAMBDA e : keepBranch(pinnedState, e))

\* ---- UI-state reducer ----
INITIAL_STATE ==
  [mainView |-> "history",
   branchContainerExpanded |-> TRUE,
   highlightSuccessorsOf |-> Null]

\* mutant: HIGHLIGHT_SUCCESSORS always stores its payload
reduce_NoToggle(state, action) ==
  IF action.type = "SELECT_MAIN_VIEW"
  THEN [state EXCEPT !.mainView = action.payload]
  ELSE IF action.type = "TOGGLE_BRANCH_CONTAINER"
  THEN [state EXCEPT !.branchContainerExpanded = ~state.branchContainerExpanded]
  ELSE IF action.type = "HIGHLIGHT_SUCCESSORS"
  THEN [state EXCEPT !.highlightSuccessorsOf = action.payload]
  ELSE state

reduce(state, action) ==
  IF action.type = "SELECT_MAIN_VIEW"
  THEN [state EXCEPT !.mainView = action.payload]
  ELSE IF action.type = "TOGGLE_BRANCH_CONTAINER"
  THEN [state EXCEPT !.branchContainerExpanded = ~state.branchContainerExpanded]
  ELSE IF action.type = "HIGHLIGHT_SUCCESSORS"
  THEN IF action.payload = state.highlightSuccessorsOf
       THEN [state EXCEPT !.highlightSuccessorsOf = Null]
       ELSE [state EXCEPT !.highlightSuccessorsOf = action.payload]
  ELSE state

\* ---- playback view ----
\* mutant: off by one
isLastSlideOf_OffByOne(bks, index) == index = Len(bks)

isLastSlideOf(bks, index) == index = Len(bks) - 1

forwardActionOf(bks, index) ==
  IF isLastSlideOf(bks, index) THEN "playBookmarkStory" ELSE "nextBookmark"

\* Transport.forward: calls the onForward prop if there is one
forward(onForward) ==
  IF onForward # "none" THEN <<[cmd |-> onForward, arg |-> Null]>> ELSE <<>>

\* ---- bookmark control ----
\* mutant: the two commands are swapped
onStateBookmarkClick_Swapped(bks, id) ==
  IF isBookmarked(bks, id)
  THEN <<[cmd |-> "addBookmark", arg |-> id]>>
  ELSE <<[cmd |-> "removeBookmark", arg |-> id]>>

\* the commands onStateBookmarkClick(id) passes to the collaborator
onStateBookmarkClick(bks, id) ==
  IF isBookmarked(bks, id)
  THEN <<[cmd |-> "removeBookmark", arg |-> id]>>
  ELSE <<[cmd |-> "addBookmark", arg |-> id]>>

\* ---- state ----
VARIABLES
  graph,                  \* history.graph, read through the graph queries
  bookmarks,              \* history.bookmarks
  bookmarkPlaybackIndex,  \* history.bookmarkPlaybackIndex, Null when browsing
  ui,                     \* the reducer's state
  lastHighlight,          \* payload of the last HIGHLIGHT_SUCCESSORS action
  stateList,              \* rendered StateList states
  branchList,             \* rendered BranchList branches
  playback,               \* rendered playback view
  calls,                  \* commands the last handler passed to the collaborator
  arrays                  \* the arrays the last render read, as it left them

vars == <<graph, bookmarks, bookmarkPlaybackIndex, ui, lastHighlight,
          stateList, branchList, playback, calls, arrays>>

NoPlayback == [shown |-> FALSE, isLastSlide |-> FALSE, forwardAction |-> "none"]

isPlaybackMode(index) == index # Null

\* History.render: the playback pane in playback mode, otherwise the state
\* list and, if the branch container is expanded, the branch list
Render(g, bks, index, u, sl, bl, pb) ==
  LET path == getCurrentCommitPath(g)
  IN IF isPlaybackMode(index)
     THEN /\ sl = <<>>
          /\ bl = <<>>
          /\ pb = [shown |-> TRUE,
                   isLastSlide |-> isLastSlideOf(bks, index),
                   forwardAction |-> forwardActionOf(bks, index)]
     ELSE /\ sl = getStateList(g, path, bks, u.highlightSuccessorsOf)
          /\ bl = IF u.branchContainerExpanded
                  THEN getBranchList(g, path, u.highlightSuccessorsOf)
                  ELSE <<>>
          /\ pb = NoPlayback

\* the array obtained from graph.branches once getBranchList has run:
\* Array.prototype.sort and Array.prototype.reverse reorder it in place
branchesAfterGetBranchList(bs) == Reverse(SortAsc(bs))

\* the arrays a render reads, as they are when it returns: commitPath.map and
\* bookmarks.map build new arrays, branches.sort(...).reverse() does not
arraysAfterRender(g, bks, index, u) ==
  [branches |-> IF ~isPlaybackMode(index) /\ u.branchContainerExpanded
                THEN branchesAfterGetBranchList(g.branches)
                ELSE g.branches,
   commitPath |-> getCurrentCommitPath(g),
   bookmarks |-> bks]

BookmarkLists(g) ==
  UNION {[1 .. k -> {[stateId |-> s] : s \in GraphStates(g)}] : k \in 0 .. MaxBookmarks}

\* inputs of the projections: any graph, nothing bookmarked, browsing
Init ==
  /\ \E nm \in GraphSizes : graph \in GraphsOf(nm[1], nm[2])
  /\ bookmarks = <<>>
  /\ bookmarkPlaybackIndex = Null
  /\ ui = INITIAL_STATE
  /\ lastHighlight = Null
  /\ calls = <<>>
  /\ Render(graph, bookmarks, bookmarkPlaybackIndex, ui, stateList, branchList, playback)
  /\ arrays = arraysAfterRender(graph, bookmarks, bookmarkPlaybackIndex, ui)

\* inputs of the bookmark story: a single-branch graph, any bookmark list,
\* browsing or playing back at any valid index
StoryInit ==
  /\ \E n \in 1 .. MaxStates : graph \in GraphsOf(n, 1)
  /\ bookmarks \in BookmarkLists(graph)
  /\ bookmarkPlaybackIndex \in {Null} \cup (0 .. (Len(bookmarks) - 1))
  /\ ui = INITIAL_STATE
  /\ lastHighlight = Null
  /\ calls = <<>>
  /\ Render(graph, bookmarks, bookmarkPlaybackIndex, ui, stateList, branchList, playback)
  /\ arrays = arraysAfterRender(graph, bookmarks, bookmarkPlaybackIndex, ui)

\* the store hands an action to the reducer and the component re-renders
Dispatch(action) ==
  /\ ui' = reduce(ui, action)
  /\ lastHighlight' = IF action.type = "HIGHLIGHT_SUCCESSORS"
                    THEN action.payload ELSE lastHighlight
  /\ calls' = <<>>
  /\ UNCHANGED <<graph, bookmarks, bookmarkPlaybackIndex>>
  /\ Render(graph', bookmarks', bookmarkPlaybackIndex', ui',
            stateList', branchList', playback')
  /\ arrays' = arraysAfterRender(graph', bookmarks', bookmarkPlaybackIndex', ui')

HighlightSuccessors ==
  \E x \in StateIds : Dispatch([type |-> "HIGHLIGHT_SUCCESSORS", payload |-> x])

ToggleBranchContainer ==
  Dispatch([type |-> "TOGGLE_BRANCH_CONTAINER", payload |-> Null])

SelectMainView ==
  \E v \in {"history", "storyboarding"} :
    Dispatch([type |-> "SELECT_MAIN_VIEW", payload |-> v])

\* StateList bookmark control of a rendered state
ClickStateBookmark ==
  \E k \in 1 .. Len(stateList) :
    /\ calls' = onStateBookmarkClick(bookmarks, stateList[k].id)
    /\ UNCHANGED <<graph, bookmarks, bookmarkPlaybackIndex, ui, lastHighlight,
                   stateList, branchList, playback, arrays>>

\* Transport.forward of the playback transport
TransportForward ==
  /\ playback.shown
  /\ calls' = forward(playback.forwardAction)
  /\ UNCHANGED <<graph, bookmarks, bookmarkPlaybackIndex, ui, lastHighlight,
                 stateList, branchList, playback, arrays>>

Next == HighlightSuccessors

StoryNext ==
  \/ ToggleBranchContainer
  \/ SelectMainView
  \/ ClickStateBookmark
  \/ TransportForward

Spec == Init /\ [][Next]_vars

SpecStory == StoryInit /\ [][StoryNext]_vars


\* ---- claims ----
pinnedState == ui.highlightSuccessorsOf

currentPath == getCurrentCommitPath(graph)

shownBranches == {branchList[k].id : k \in 1 .. Len(branchList)}

\* C1: with nothing pinned the branch list has exactly one entry per branch
\* of graph.branches; with a state pinned (any numeric id) a branch has an
\* entry iff it is the current branch, or its pinnedStateIndex is a number,
\* or its successorDepth is a number.
C1_BranchFilter ==
  IF ~isNumber(pinnedState)
  THEN /\ Len(branchList) = Len(graph.branches)
       /\ shownBranches = Range(graph.branches)
  ELSE \A b \in Range(graph.branches) :
         b \in shownBranches <=>
           \/ b = graph.currentBranch
           \/ isNumber(getPinnedStateDepth(graph, pinnedState, b))
           \/ isNumber(getSuccessorDepth(graph, pinnedState, b))

\* C1, the part the code satisfies: the filter rule holds for every pinned id
\* other than 0
C1_FilterUnlessZero == pinnedState # 0 => C1_BranchFilter

\* C2: an entry of the state list has isSuccessor exactly when a state is
\* pinned and it is the parent of the entry's state; with nothing pinned no
\* entry has isSuccessor.
C2_SuccessorFlag ==
  \A k \in 1 .. Len(stateList) :
    stateList[k].isSuccessor <=>
      (pinnedState # Null /\ graph.parent[stateList[k].id] = pinnedState)

C2_Witness ==
  /\ pinnedState # Null
  /\ \E k \in 1 .. Len(stateList) : stateList[k].isSuccessor
  /\ \E k \in 1 .. Len(stateList) : ~stateList[k].isSuccessor

HighlightAction(x) == [type |-> "HIGHLIGHT_SUCCESSORS", payload |-> x]

\* C3: HIGHLIGHT_SUCCESSORS(x) while x is pinned unpins; two
\* HIGHLIGHT_SUCCESSORS(x) in a row from the unpinned state end unpinned, with
\* the state list and the branch list of the unpinned case; the pinned state
\* is always null or the payload of the last HIGHLIGHT_SUCCESSORS.
C3_PinToggle ==
  /\ pinnedState # Null =>
       reduce(ui, HighlightAction(pinnedState)).highlightSuccessorsOf = Null
  /\ pinnedState = Null =>
       LET twice == {reduce(reduce(ui, HighlightAction(x)), HighlightAction(x)) :
                       x \in StateIds}
       IN \A u \in twice :
            /\ u.highlightSuccessorsOf = Null
            /\ getStateList(graph, currentPath, bookmarks,
                            u.highlightSuccessorsOf) = stateList
            /\ getBranchList(graph, currentPath,
                             u.highlightSuccessorsOf) = branchList
  /\ pinnedState \in {Null, lastHighlight}

\* a state was pinned and the same id was dispatched again
C3_Witness ==
  /\ lastHighlight # Null
  /\ pinnedState = Null
  /\ Len(stateList) >= 2
  /\ Len(branchList) >= 2

\* C4: the ids of the branch list are strictly descending, also after
\* filtering.
C4_BranchOrder ==
  \A k \in 1 .. (Len(branchList) - 1) : branchList[k].id > branchList[k + 1].id

\* two lanes shown, once with the filter off and once with the filter on
C4_Witness ==
  /\ Len(branchList) = 2
  /\ Truthy(pinnedState)

\* C5: the state list is as long as the commit path and its ids, read in
\* reverse, are the commit path.
C5_StateListShape ==
  /\ Len(stateList) = Len(currentPath)
  /\ \A k \in 1 .. Len(stateList) :
       stateList[k].id = currentPath[Len(currentPath) + 1 - k]

\* a path of several commits that crosses from one branch to another
C5_Witness ==
  /\ Len(stateList) >= 3
  /\ \E k \in 1 .. Len(stateList) : stateList[k].branchType = "legacy"
  /\ pinnedState # Null

\* C7: a lane's activeStateIndex is the depth index of the current state on
\* the current state's own branch if the lane is the current branch or the
\* current state's branch, and null on every other lane.
C7_ActiveMarker ==
  LET own == graph.branch[graph.currentStateId]
      depth == Cardinality({a \in Range(commitPath(graph, graph.currentStateId)) :
                              graph.branch[a] = own}) - 1
  IN \A k \in 1 .. Len(branchList) :
       branchList[k].activeStateIndex =
         IF branchList[k].id = graph.currentBranch \/ branchList[k].id = own
         THEN depth ELSE Null

\* the current state is a later commit of forked branch 1; the lane of
\* branch 0 holds commits but not the current state
C7_Witness ==
  /\ Len(branchList) = 2
  /\ branchList[1].id = 1 /\ branchList[1].activeStateIndex = 1
  /\ branchList[2].id = 0 /\ branchList[2].activeStateIndex = Null
  /\ branchList[2].startsAt = 0

\* C9 as stated: on an empty commit path both lists are empty.
C9_EmptyPathEmptyLists ==
  currentPath = <<>> => (stateList = <<>> /\ branchList = <<>>)

\* C9 as the code has it: on an empty commit path the state list is empty;
\* the branch list still has the lane of the current branch, and of every
\* branch when nothing is pinned, and no lane has a place on the commit path.
C9_EmptyPath ==
  currentPath = <<>> =>
    /\ stateList = <<>>
    /\ graph.currentBranch \in shownBranches
    /\ pinnedState = Null => shownBranches = Range(graph.branches)
    /\ \A k \in 1 .. Len(branchList) :
         /\ branchList[k].currentBranchStart = Null
         /\ branchList[k].currentBranchEnd = Null

\* the current branch has no commits, another branch has, a state is pinned
C9_Witness ==
  /\ currentPath = <<>>
  /\ Truthy(pinnedState)
  /\ Len(branchList) >= 1
  /\ \E b \in Range(graph.branches) : b \notin shownBranches

\* C10: with a state p pinned, the successorDepth of a lane is the depth
\* index of the direct child of p on that branch, whatever the child's id,
\* and null if p has no child there; with nothing pinned it is null.
C10_SuccessorDepth ==
  \A k \in 1 .. Len(branchList) :
    LET b == branchList[k].id
        kids == {c \in GraphStates(graph) :
                   graph.parent[c] = pinnedState /\ graph.branch[c] = b}
    IN IF isNumber(pinnedState) /\ kids # {}
       THEN \E c \in kids : branchList[k].successorDepth = depthIndexOf(graph, b, c)
       ELSE branchList[k].successorDepth = Null

\* C10, the part the code satisfies: children with an id other than 0
C10_UnlessChildZero ==
  (isNumber(pinnedState) /\ parentOf(graph, 0) = pinnedState) \/ C10_SuccessorDepth

\* C6: in playback isLastSlide holds exactly at index bookmarks.length - 1;
\* the forward transport action calls playBookmarkStory on the last slide and
\* nextBookmark on any other, and nothing else.
C6_PlaybackForward ==
  LET last == bookmarkPlaybackIndex = Len(bookmarks) - 1
      bound == IF last THEN "playBookmarkStory" ELSE "nextBookmark"
  IN /\ playback.shown <=> bookmarkPlaybackIndex # Null
     /\ playback.shown =>
          /\ playback.isLastSlide <=> last
          /\ playback.forwardAction = bound
     /\ \A i \in 1 .. Len(calls) :
          calls[i].cmd \in {"playBookmarkStory", "nextBookmark"} =>
            calls = <<[cmd |-> bound, arg |-> Null]>>

\* forward was pressed on the last of several slides
C6_Witness ==
  /\ Len(bookmarks) >= 2
  /\ bookmarkPlaybackIndex = Len(bookmarks) - 1
  /\ calls = <<[cmd |-> "playBookmarkStory", arg |-> Null]>>

\* forward was pressed on a slide that is not the last
C6_WitnessNext ==
  /\ bookmarkPlaybackIndex = 0
  /\ calls = <<[cmd |-> "nextBookmark", arg |-> Null]>>

\* C8: a click on a state's bookmark control calls exactly one command:
\* removeBookmark if some bookmark has that stateId, addBookmark if none has,
\* in agreement with the bookmarked flag of the state's entry.
C8_BookmarkToggle ==
  \A i \in 1 .. Len(calls) :
    calls[i].cmd \in {"addBookmark", "removeBookmark"} =>
      /\ Len(calls) = 1
      /\ calls[1].cmd = "removeBookmark" <=>
           \E j \in 1 .. Len(bookmarks) : bookmarks[j].stateId = calls[1].arg
      /\ \E k \in 1 .. Len(stateList) :
           /\ stateList[k].id = calls[1].arg
           /\ stateList[k].bookmarked <=> calls[1].cmd = "removeBookmark"

\* the control of a state bookmarked twice was clicked
C8_Witness ==
  /\ Len(bookmarks) = 2
  /\ bookmarks[1].stateId = bookmarks[2].stateId
  /\ calls = <<[cmd |-> "removeBookmark", arg |-> bookmarks[1].stateId]>>


\* the projections run again on the arrays the last render left behind
reprojectedStateList ==
  getStateList(graph, arrays.commitPath, arrays.bookmarks, pinnedState)

reprojectedBranchList ==
  getBranchList([graph EXCEPT !.branches = arrays.branches],
                arrays.commitPath, pinnedState)

\* C11: a projection leaves its inputs as they were: the commit path, the
\* bookmark list and the collection obtained from graph.branches have the same
\* contents in the same order after the call, and a second projection from
\* them returns the same lists.
C11_ReadOnly ==
  /\ arrays.commitPath = currentPath
  /\ arrays.bookmarks = bookmarks
  /\ arrays.branches = graph.branches
  /\ reprojectedStateList = stateList
  /\ reprojectedBranchList = branchList

\* C11, the part the code satisfies: while the lists are shown, everything
\* but the order of the collection obtained from graph.branches
C11_ExceptBranchOrder ==
  /\ arrays.commitPath = currentPath
  /\ arrays.bookmarks = bookmarks
  /\ Range(arrays.branches) = Range(graph.branches)
  /\ Len(arrays.branches) = Len(graph.branches)
  /\ ~playback.shown => reprojectedStateList = stateList
  /\ (~playback.shown /\ ui.branchContainerExpanded) =>
       reprojectedBranchList = branchList

====
